---- MODULE Spec2Model ----
(***************************************************************************)
(* GlobalUserData (bemani/data/api/user.py): profile lookups that merge    *)
(* the local store with the profiles returned by the configured remote     *)
(* peers.  Strings that the code compares or sorts (card ids) are          *)
(* sequences of character codes; dicts are functions over their keys.      *)
(***************************************************************************)
EXTENDS Integers, Sequences, FiniteSets, TLC

VARIABLES
    game,          \* requested game
    version,       \* requested version
    cardTable,     \* local store: list of <<cardid, userid>> (get_all_cards)
    profileTable,  \* local store: list of <<userid, profile>> for game/version
    refs,          \* local store: (game, version, userid) with minted refid/extid
    pc,            \* "idle" | "fanout" | "done"
    op,            \* the public method being executed
    arg,           \* its arguments
    pendingPeers,  \* peers whose get_profiles call has not completed
    pendingLocal,  \* local store tasks of Parallel.execute not completed
    resp,          \* per peer: the records its call returned
    raised,        \* peers whose call raised
    remote,        \* the flattened record objects as the method leaves them
    result,        \* what the method returned (or the exception it raised)
    calls,         \* the peer queries and local store lookups the method made
    order,         \* history: the peers in the order their calls completed
    first,         \* what the same call returned the time before
    held,          \* per peer: the records it answers the same call with again
    failing        \* a peer's failure is to be passed to the caller at the join

vars == <<game, version, cardTable, profileTable, refs, pc, op, arg,
          pendingPeers, pendingLocal, resp, raised, remote, result,
          calls, order, first, held, failing>>

---------------------------------------------------------------------------
(* Bounds *)

\* records returned by all peers together in one fan-out
MaxRecords == 2
\* configured remote peers (self.clients)
NumPeers == 2

Peers == 1..NumPeers

---------------------------------------------------------------------------
(* Strings as sequences of character codes *)

\* "a1", "A1", "B1"
Card_a1 == <<97, 49>>
Card_A1 == <<65, 49>>
Card_B1 == <<66, 49>>

\* str.upper() on one ASCII character
UpperChar(c) == IF c >= 97 /\ c <= 122 THEN c - 32 ELSE c

\* str.upper()
Upper(s) == [i \in 1..Len(s) |-> UpperChar(s[i])]

\* Python's str < str: code point order, a proper prefix is smaller
RECURSIVE StrLess(_, _)
StrLess(a, b) ==
    IF Len(b) = 0 THEN FALSE
    ELSE IF Len(a) = 0 THEN TRUE
    ELSE IF a[1] # b[1] THEN a[1] < b[1]
    ELSE StrLess(Tail(a), Tail(b))

\* `x in list`
InSeq(x, s) == \E i \in 1..Len(s) : s[i] = x

\* insert x into the sorted list s, after the elements not greater than x
RECURSIVE SortedInsert(_, _)
SortedInsert(x, s) ==
    IF Len(s) = 0 THEN <<x>>
    ELSE IF StrLess(x, s[1]) THEN <<x>> \o s
    ELSE <<s[1]>> \o SortedInsert(x, Tail(s))

\* sorted(list of str)
RECURSIVE Sorted(_)
Sorted(s) ==
    IF Len(s) = 0 THEN <<>>
    ELSE SortedInsert(s[Len(s)], Sorted(SubSeq(s, 1, Len(s) - 1)))

---------------------------------------------------------------------------
(* dicts: a function over the keys present *)

EmptyDict == [k \in {} |-> 0]
Has(d, k) == k \in DOMAIN d
\* dict.get(k, default)
Get(d, k, default) == IF k \in DOMAIN d THEN d[k] ELSE default
\* d[k] = v
Put(d, k, v) == [x \in (DOMAIN d) \cup {k} |-> IF x = k THEN v ELSE d[x]]
\* del d[k], for a key that is present
Del(d, k) == [x \in (DOMAIN d) \ {k} |-> d[x]]

(* insertion-ordered dicts whose order the code exposes: a list of <<k, v>> *)
OHas(d, k) == \E i \in 1..Len(d) : d[i][1] = k
OGet(d, k) == d[CHOOSE i \in 1..Len(d) : d[i][1] = k][2]
\* d.setdefault(k, v): an existing key keeps its value
OPut_keepFirst(d, k, v) == IF OHas(d, k) THEN d ELSE Append(d, <<k, v>>)

\* d[k] = v: an existing key keeps its position
OPut(d, k, v) ==
    IF OHas(d, k)
    THEN [i \in 1..Len(d) |-> IF d[i][1] = k THEN <<k, v>> ELSE d[i]]
    ELSE Append(d, <<k, v>>)
\* del d[k]
RECURSIVE ODel(_, _)
ODel(d, k) ==
    IF Len(d) = 0 THEN <<>>
    ELSE IF d[1][1] = k THEN ODel(Tail(d), k)
    ELSE <<d[1]>> \o ODel(Tail(d), k)

\* the absent value None, where a profile is expected
None == [none |-> TRUE]

---------------------------------------------------------------------------
(* RemoteUser: user ids and the virtual ids derived from a card *)

\* a user id owned by the local store
LocalUser(n) == [kind |-> "local", num |-> n, card |-> <<>>]
\* the absent user id
NoUser == [kind |-> "none", num |-> 0, card |-> <<>>]

\* RemoteUser.card_to_userid: injective, total
card_to_userid(cardid) == [kind |-> "virtual", num |-> 0, card |-> cardid]
\* RemoteUser.userid_to_card: its inverse, on virtual ids
userid_to_card(userid) == userid.card
\* RemoteUser.is_remote
is_remote(userid) == userid.kind = "virtual"

---------------------------------------------------------------------------
(* UserData: the local store *)

\* the refid / extid the store holds for (game, version, userid)
RefId(g, v, userid) == [tag |-> "refid", game |-> g, version |-> v, userid |-> userid]
ExtId(g, v, userid) == [tag |-> "extid", game |-> g, version |-> v, userid |-> userid]

\* UserData.get_refid / get_extid: look up or create; the store after the call
user_mint(rs, g, v, userid) == rs \cup {<<g, v, userid>>}

\* UserData.from_cardid
user_from_cardid(cards, cardid) ==
    IF \E i \in 1..Len(cards) : cards[i][1] = cardid
    THEN cards[CHOOSE i \in 1..Len(cards) : cards[i][1] = cardid][2]
    ELSE NoUser

\* UserData.from_refid / from_extid: the user the id was minted for
user_from_id(rs, g, v, id) ==
    IF id.game = g /\ id.version = v /\ <<g, v, id.userid>> \in rs
    THEN id.userid
    ELSE NoUser

\* UserData.get_profile / get_any_profile
user_get_profile(profiles, userid) ==
    IF OHas(profiles, userid) THEN OGet(profiles, userid) ELSE None

\* UserData.get_any_profiles: one tuple per requested id, in request order
user_get_any_profiles(profiles, userids) ==
    [i \in 1..Len(userids) |-> <<userids[i], user_get_profile(profiles, userids[i])>>]

---------------------------------------------------------------------------
(* Profile formatting, lines 18-107 *)

\* ValidatedDict.get_int / get_dict
get_int(d, k, default) == Get(d, k, default)
get_dict(d, k) == Get(d, k, EmptyDict)
\* dict.update
Update(d, u) == [x \in (DOMAIN d) \cup (DOMAIN u) |-> IF x \in DOMAIN u THEN u[x] ELSE d[x]]
\* d[k] = v when cond, else d
PutIf(cond, d, k, v) == IF cond THEN Put(d, k, v) ELSE d

format_ddr_profile(profile) ==
    LET area == get_int(profile, "area", -1)
    IN  PutIf(area # -1, EmptyDict, "area", area)

\* every sub-field emitted, -1 standing for an absent one
format_iidx_profile_defaulted(profile) ==
    LET area == get_int(profile, "area", -1)
        qpro == get_dict(profile, "qpro")
    IN  Put(PutIf(area # -1, EmptyDict, "pid", area), "qpro",
            [head |-> get_int(qpro, "head", -1),
             hair |-> get_int(qpro, "hair", -1),
             face |-> get_int(qpro, "face", -1),
             body |-> get_int(qpro, "body", -1),
             hand |-> get_int(qpro, "hand", -1)])

format_iidx_profile(profile) ==
    LET area == get_int(profile, "area", -1)
        qpro == get_dict(profile, "qpro")
        head == get_int(qpro, "head", -1)
        hair == get_int(qpro, "hair", -1)
        face == get_int(qpro, "face", -1)
        body == get_int(qpro, "body", -1)
        hand == get_int(qpro, "hand", -1)
        q1 == PutIf(head # -1, EmptyDict, "head", head)
        q2 == PutIf(hair # -1, q1, "hair", hair)
        q3 == PutIf(face # -1, q2, "face", face)
        q4 == PutIf(body # -1, q3, "body", body)
        q5 == PutIf(hand # -1, q4, "hand", hand)
    IN  Put(PutIf(area # -1, EmptyDict, "pid", area), "qpro", q5)

format_jubeat_profile(profile) == EmptyDict

format_museca_profile(profile) == EmptyDict

format_popn_profile(profile) ==
    LET chara == get_int(profile, "character", -1)
    IN  PutIf(chara # -1, EmptyDict, "chara", chara)

format_reflec_profile(profile) ==
    LET icon == get_int(profile, "icon", -1)
    IN  PutIf(icon # -1, EmptyDict, "config", [icon_id |-> icon])

format_sdvx_profile(profile) == EmptyDict

\* lines 91-105: the updates of the game the profile is of (the tests on
\* profilegame exclude each other); a game that none of them names gets no
\* update
format_game_profile(profile) ==
    CASE profile["game"] = "ddr" -> format_ddr_profile(profile)
      [] profile["game"] = "iidx" -> format_iidx_profile(profile)
      [] profile["game"] = "jubeat" -> format_jubeat_profile(profile)
      [] profile["game"] = "museca" -> format_museca_profile(profile)
      [] profile["game"] = "pnm" -> format_popn_profile(profile)
      [] profile["game"] = "reflec" -> format_reflec_profile(profile)
      [] profile["game"] = "sdvx" -> format_sdvx_profile(profile)
      [] OTHER -> EmptyDict

format_profile(profile) ==
    LET base == [name |-> Get(profile, "name", ""),
                 game |-> profile["game"],
                 version |-> profile["version"],
                 refid |-> profile["refid"],
                 extid |-> profile["extid"]]
    IN  Update(base, format_game_profile(profile))

---------------------------------------------------------------------------
(* Steps shared by the three merges *)

\* the cards compared as the peer sent them
UpperCards_raw(profile) == Get(profile, "cards", <<>>)

\* [card.upper() for card in profile.get('cards', [])]
UpperCards(profile) ==
    LET cards == Get(profile, "cards", <<>>)
    IN  [i \in 1..Len(cards) |-> Upper(cards[i])]

\* a record without a marker taken for an exact one
ExactMatch_defaultExact(profile) == Get(profile, "match", "exact") = "exact"

\* profile.get('match', 'partial') == 'exact'
ExactMatch(profile) == Get(profile, "match", "partial") = "exact"

\* if 'match' in profile: del profile['match']
StripMatch(profile) == IF Has(profile, "match") THEN Del(profile, "match") ELSE profile

\* the two ids stored under each other's key
AddDefaults_idsSwapped(profile, g, v, refid, extid) ==
    Put(Put(Put(Put(profile, "game", g), "version", v), "refid", extid), "extid", refid)

\* "Add in our defaults we always provide"
AddDefaults(profile, g, v, refid, extid) ==
    Put(Put(Put(Put(profile, "game", g), "version", v), "refid", refid), "extid", extid)

\* the per-peer lists concatenated in the order the calls completed
RECURSIVE FlattenCompleted(_, _)
FlattenCompleted(lists, k) ==
    IF k > Len(order) THEN <<>> ELSE lists[order[k]] \o FlattenCompleted(lists, k + 1)
Flatten_byCompletion(lists) == FlattenCompleted(lists, 1)

\* Parallel.flatten: the per-peer lists concatenated in the order of self.clients
RECURSIVE FlattenFrom(_, _)
FlattenFrom(lists, p) ==
    IF p > NumPeers THEN <<>> ELSE lists[p] \o FlattenFrom(lists, p + 1)
Flatten(lists) == FlattenFrom(lists, 1)

---------------------------------------------------------------------------
(* __profile_request, lines 109-145: the scan of the flattened records *)

RECURSIVE profile_request_scan(_, _, _, _, _, _, _, _)
profile_request_scan(g, v, cardid, refid, extid, exact, profiles, i) ==
    IF i > Len(profiles) THEN None
    ELSE
      LET cards == UpperCards(profiles[i])
      IN  IF ~InSeq(cardid, cards)
          THEN profile_request_scan(g, v, cardid, refid, extid, exact, profiles, i + 1)
          ELSE
            LET copied == Del(profiles[i], "cards")
                exact_match == ExactMatch(copied)
            IN  IF exact /\ ~exact_match
                THEN profile_request_scan(g, v, cardid, refid, extid, exact, profiles, i + 1)
                ELSE format_profile(AddDefaults(StripMatch(copied), g,
                                                IF exact_match THEN v ELSE 0,
                                                refid, extid))

profile_request(g, v, userid, exact, profiles) ==
    profile_request_scan(g, v, userid_to_card(userid), RefId(g, v, userid),
                         ExtId(g, v, userid), exact, profiles, 1)

---------------------------------------------------------------------------
(* get_any_profiles, lines 190-243: the merge *)

\* {RemoteUser.userid_to_card(userid): userid for userid in remote_ids}
RECURSIVE card_to_userid_map(_)
card_to_userid_map(remote_ids) ==
    IF Len(remote_ids) = 0 THEN <<>>
    ELSE LET userid == remote_ids[Len(remote_ids)]
         IN  OPut(card_to_userid_map(SubSeq(remote_ids, 1, Len(remote_ids) - 1)),
                  userid_to_card(userid), userid)

\* lines 208-237, one pass of `for card in cards`.  st.profile is what the
\* variable `profile` is bound to: the peer's record until the first match,
\* the sanitized copy afterwards.  `del profile['cards']` on a dict without
\* that key raises KeyError.
many_card_step(g, v, st, card) ==
    IF st.err \/ ~OHas(st.c2u, card) THEN st
    ELSE IF ~Has(st.profile, "cards") THEN [st EXCEPT !.err = TRUE]
    ELSE
      LET userid == OGet(st.c2u, card)
          copied == Del(st.profile, "cards")
          exact_match == ExactMatch(copied)
          full == AddDefaults(StripMatch(copied), g, IF exact_match THEN v ELSE 0,
                              RefId(g, v, userid), ExtId(g, v, userid))
      IN  [profile |-> full,
           c2u |-> ODel(st.c2u, card),
           out |-> Append(st.out, <<userid, format_profile(full)>>),
           refs |-> user_mint(st.refs, g, v, userid),
           err |-> FALSE]

RECURSIVE many_cards_loop(_, _, _, _, _)
many_cards_loop(g, v, st, cards, j) ==
    IF j > Len(cards) THEN st
    ELSE many_cards_loop(g, v, many_card_step(g, v, st, cards[j]), cards, j + 1)

\* lines 206-237, `for profile in remote_profiles`
RECURSIVE many_records_loop(_, _, _, _, _)
many_records_loop(g, v, st, remote_profiles, i) ==
    IF i > Len(remote_profiles) \/ st.err THEN st
    ELSE many_records_loop(g, v,
             many_cards_loop(g, v, [st EXCEPT !.profile = remote_profiles[i]],
                             UpperCards(remote_profiles[i]), 1),
             remote_profiles, i + 1)

\* lines 239-241: the ids still in card_to_userid get None
MissingTuples(c2u) == [i \in 1..Len(c2u) |-> <<c2u[i][2], None>>]

\* the merge: the returned list, or the exception, and the store afterwards
get_any_profiles_merge(g, v, rs, local_profiles, remote_ids, remote_profiles) ==
    LET st0 == [profile |-> EmptyDict,
                c2u |-> card_to_userid_map(remote_ids),
                out |-> local_profiles,
                refs |-> rs,
                err |-> FALSE]
        st == many_records_loop(g, v, st0, remote_profiles, 1)
    IN  IF st.err
        THEN [status |-> "KeyError", value |-> <<>>, refs |-> st.refs]
        ELSE [status |-> "ok", value |-> st.out \o MissingTuples(st.c2u), refs |-> st.refs]

---------------------------------------------------------------------------
(* get_all_profiles, lines 260-293: the merge *)

\* {k: v for (k, v) in pairs}
RECURSIVE DictOf(_)
DictOf(pairs) ==
    IF Len(pairs) = 0 THEN <<>>
    ELSE OPut(DictOf(SubSeq(pairs, 1, Len(pairs) - 1)),
              pairs[Len(pairs)][1], pairs[Len(pairs)][2])

\* the first card as the peer listed it
all_first_card_unsorted(profile) == UpperCards(profile)[1]

\* line 281, cardids[0]: the first card of the sorted list
all_first_card(profile) == Sorted(UpperCards(profile))[1]

\* only the first card looked up in the local card table
all_has_local_first(card_to_id, cardids) == OHas(card_to_id, cardids[1])

\* lines 269-270: some card of the record is in the local card table
all_has_local(card_to_id, cardids) ==
    \E i \in 1..Len(cardids) : OHas(card_to_id, cardids[i])

\* any record that carries a marker accepted
all_accepts_marked(profile) == Has(profile, "match")

\* lines 277-279: only an exact record makes a user
all_accepts(profile) == ExactMatch(profile)

\* lines 263-291, one pass of `for profile in remote_profiles`; st.recs
\* collects the record objects as the pass leaves them (the loop works on
\* the peer's record itself, not on a copy)
all_record_step(g, v, card_to_id, st, profile) ==
    LET cardids == Sorted(UpperCards(profile))
        keep(rec) == [st EXCEPT !.recs = Append(st.recs, rec)]
    IN  IF Len(cardids) = 0 THEN keep(profile)
        ELSE IF all_has_local(card_to_id, cardids) THEN keep(profile)
        ELSE
          LET stripped == Del(profile, "cards")
          IN  IF ~all_accepts(stripped) THEN keep(stripped)
              ELSE
                LET userid == card_to_userid(all_first_card(profile))
                    full == AddDefaults(stripped, g, v, RefId(g, v, userid), ExtId(g, v, userid))
                IN  [idp |-> OPut(st.idp, userid, format_profile(full)),
                     refs |-> user_mint(st.refs, g, v, userid),
                     recs |-> Append(st.recs, full)]

RECURSIVE all_records_loop(_, _, _, _, _, _)
all_records_loop(g, v, card_to_id, st, remote_profiles, i) ==
    IF i > Len(remote_profiles) THEN st
    ELSE all_records_loop(g, v, card_to_id,
             all_record_step(g, v, card_to_id, st, remote_profiles[i]),
             remote_profiles, i + 1)

\* the entries of virtual users whose ids the store held before the call
\* are left out
RECURSIVE drop_known(_, _, _, _)
drop_known(idp, g, v, rs) ==
    IF Len(idp) = 0 THEN <<>>
    ELSE IF is_remote(idp[1][1]) /\ <<g, v, idp[1][1]>> \in rs
    THEN drop_known(Tail(idp), g, v, rs)
    ELSE <<idp[1]>> \o drop_known(Tail(idp), g, v, rs)

get_all_profiles_merge_newOnly(g, v, rs, local_cards, local_profiles, remote_profiles) ==
    LET st0 == [idp |-> DictOf(local_profiles), refs |-> rs, recs |-> <<>>]
        st == all_records_loop(g, v, DictOf(local_cards), st0, remote_profiles, 1)
    IN  [status |-> "ok", value |-> drop_known(st.idp, g, v, rs),
         refs |-> st.refs, recs |-> st.recs]

\* the merge: the returned list, the store and the peers' records afterwards
get_all_profiles_merge(g, v, rs, local_cards, local_profiles, remote_profiles) ==
    LET st0 == [idp |-> DictOf(local_profiles), refs |-> rs, recs |-> <<>>]
        st == all_records_loop(g, v, DictOf(local_cards), st0, remote_profiles, 1)
    IN  [status |-> "ok", value |-> st.idp, refs |-> st.refs, recs |-> st.recs]

---------------------------------------------------------------------------
(* Inputs *)

L1 == LocalUser(1)
L2 == LocalUser(2)
V_A1 == card_to_userid(Card_A1)
V_B1 == card_to_userid(Card_B1)

\* a profile as the local store holds it
LocalProfile(g, v, userid) ==
    [name |-> "LOCAL", game |-> g, version |-> v,
     refid |-> RefId(g, v, userid), extid |-> ExtId(g, v, userid)]

\* the request's game and version (version 0 is never requested) and the
\* local store it meets: an empty store, or a store where user 1 has card B1
\* and a profile (user 2 has neither) and ids were minted earlier for user 1
\* and for the virtual user of card A1
Worlds ==
    { [game |-> "ddr", version |-> 1,
       cards |-> <<>>, profiles |-> <<>>, refs |-> {}],
      [game |-> "iidx", version |-> 2,
       cards |-> <<<<Card_B1, L1>>>>,
       profiles |-> <<<<L1, LocalProfile("iidx", 2, L1)>>>>,
       refs |-> {<<"iidx", 2, L1>>, <<"iidx", 2, V_A1>>}] }

\* ids asked of get_profile / get_any_profile
OneIds == {L1, L2, V_A1}

\* id lists asked of get_any_profiles
IdLists ==
    { <<>>, <<L1>>, <<L2, L1>>,
      <<V_A1>>, <<V_A1, V_A1>>,
      <<V_A1, V_B1>>, <<V_B1, V_A1>>,
      <<L1, V_A1, V_B1>>, <<V_B1, L2, V_A1>> }

\* a card list names each card once
Distinct(s) == \A i \in 1..Len(s) : \A j \in 1..Len(s) : s[i] = s[j] => i = j

\* cards as peers send them: case is not normalized on the wire
WireCards == {Card_a1, Card_B1}
CardLists ==
    {s \in UNION {[1..k -> WireCards] : k \in 0..Cardinality(WireCards)} : Distinct(s)}
Matches == {"absent", "partial", "exact"}

\* a record as a peer returns it; every record carries its own name
NameOf(p, i) == "P" \o ToString(p) \o "R" \o ToString(i)
RawRecord(cl, m, nm) ==
    LET base == [name |-> nm, cards |-> cl]
    IN  IF m = "absent" THEN base ELSE Put(base, "match", m)

\* the card list and the match marker of a record; of the records without
\* cards, which no method uses, only the exact ones are drawn
RecordShapes == {x \in CardLists \X Matches : Len(x[1]) = 0 => x[2] = "exact"}

\* the responses of at most n records peer p can give
Responses(p, n) ==
    UNION { { [i \in 1..k |-> RawRecord(f[i][1], f[i][2], NameOf(p, i))]
              : f \in [1..k -> RecordShapes] }
            : k \in 0..n }

RECURSIVE SumLen(_, _)
SumLen(lists, p) == IF p > NumPeers THEN 0 ELSE Len(lists[p]) + SumLen(lists, p + 1)

---------------------------------------------------------------------------
(* The state machine *)

NoArg == [userid |-> NoUser, userids |-> <<>>, cardid |-> <<>>,
          id |-> RefId("", 0, NoUser)]
NoResult == [status |-> "none", value |-> <<>>]
Ok(value) == [status |-> "ok", value |-> value]

Init ==
    \E w \in Worlds :
        /\ game = w.game
        /\ version = w.version
        /\ cardTable = w.cards
        /\ profileTable = w.profiles
        /\ refs = w.refs
        /\ pc = "idle"
        /\ op = "none"
        /\ arg = NoArg
        /\ pendingPeers = {}
        /\ pendingLocal = {}
        /\ resp = [p \in Peers |-> <<>>]
        /\ raised = {}
        /\ remote = <<>>
        /\ result = NoResult
        /\ calls = {}
        /\ order = <<>>
        /\ first = NoResult
        /\ held = [p \in Peers |-> <<>>]
        /\ failing = FALSE

store == <<game, version, cardTable, profileTable>>
fanoutVars == <<pendingPeers, pendingLocal, resp, raised, remote>>

\* a method that returns without a fan-out, after the store lookups made
Return(name, a, made, value) ==
    /\ pc = "idle"
    /\ pc' = "done"
    /\ op' = name
    /\ arg' = a
    /\ calls' = made
    /\ result' = Ok(value)
    /\ UNCHANGED <<store, refs, fanoutVars, order, first, held, failing>>

\* client.get_profiles of peer p
PeerCall(p) == "client" \o ToString(p) \o ".get_profiles"

\* Parallel.execute / Parallel.call: the tasks are started, one query per
\* configured peer and the given lookups of the local store
StartFanout(name, a, localTasks) ==
    /\ pc = "idle"
    /\ pc' = "fanout"
    /\ op' = name
    /\ arg' = a
    /\ pendingPeers' = Peers
    /\ pendingLocal' = localTasks
    /\ calls' = {PeerCall(p) : p \in Peers} \cup localTasks
    /\ UNCHANGED <<store, resp, raised, remote, result, order, first, held, failing>>

\* the store's answer passed through
from_cardid_nofallback(cards, cardid) == user_from_cardid(cards, cardid)

\* from_cardid, lines 147-151
from_cardid(cards, cardid) ==
    LET userid == user_from_cardid(cards, cardid)
    IN  IF userid = NoUser THEN card_to_userid(cardid) ELSE userid

\* from_refid, lines 153-154
from_refid(rs, g, v, refid) == user_from_id(rs, g, v, refid)

\* from_extid, lines 156-157
from_extid(rs, g, v, extid) == user_from_id(rs, g, v, extid)

FromCardid(cardid) ==
    Return("from_cardid", [NoArg EXCEPT !.cardid = cardid], {"user.from_cardid"},
           from_cardid(cardTable, cardid))

FromRefid(userid) ==
    Return("from_refid", [NoArg EXCEPT !.id = RefId(game, version, userid)],
           {"user.from_refid"},
           from_refid(refs, game, version, RefId(game, version, userid)))

FromExtid(userid) ==
    Return("from_extid", [NoArg EXCEPT !.id = ExtId(game, version, userid)],
           {"user.from_extid"},
           from_extid(refs, game, version, ExtId(game, version, userid)))

\* the peers asked whatever the id is
GetOne_alwaysRemote(name, userid) ==
    /\ StartFanout(name, [NoArg EXCEPT !.userid = userid], {})
    /\ refs' = user_mint(refs, game, version, userid)

\* get_profile / get_any_profile, lines 159-169 and 111-121
GetOne(name, userid) ==
    IF is_remote(userid)
    THEN /\ StartFanout(name, [NoArg EXCEPT !.userid = userid], {})
         /\ refs' = user_mint(refs, game, version, userid)
    ELSE Return(name, [NoArg EXCEPT !.userid = userid], {"user." \o name},
                user_get_profile(profileTable, userid))

GetProfile(userid) == GetOne("get_profile", userid)

GetAnyProfile(userid) == GetOne("get_any_profile", userid)

\* [userid for userid in userids if RemoteUser.is_remote(userid)]
RECURSIVE remote_ids_of(_)
remote_ids_of(userids) ==
    IF Len(userids) = 0 THEN <<>>
    ELSE IF is_remote(userids[1]) THEN <<userids[1]>> \o remote_ids_of(Tail(userids))
    ELSE remote_ids_of(Tail(userids))

\* [userid for userid in userids if not RemoteUser.is_remote(userid)]
RECURSIVE local_ids_of(_)
local_ids_of(userids) ==
    IF Len(userids) = 0 THEN <<>>
    ELSE IF ~is_remote(userids[1]) THEN <<userids[1]>> \o local_ids_of(Tail(userids))
    ELSE local_ids_of(Tail(userids))

\* the empty list handed to the local store like any list of local ids
GetAnyProfiles_noEmptyCheck(userids) ==
    IF Len(remote_ids_of(userids)) = 0
    THEN Return("get_any_profiles", [NoArg EXCEPT !.userids = userids],
                {"user.get_any_profiles"},
                user_get_any_profiles(profileTable, local_ids_of(userids)))
    ELSE /\ StartFanout("get_any_profiles", [NoArg EXCEPT !.userids = userids],
                        {"user.get_any_profiles"})
         /\ UNCHANGED refs

\* get_any_profiles, lines 171-204
GetAnyProfiles(userids) ==
    IF Len(userids) = 0
    THEN Return("get_any_profiles", [NoArg EXCEPT !.userids = userids], {}, <<>>)
    ELSE IF Len(remote_ids_of(userids)) = 0
    THEN Return("get_any_profiles", [NoArg EXCEPT !.userids = userids],
                {"user.get_any_profiles"},
                user_get_any_profiles(profileTable, local_ids_of(userids)))
    ELSE /\ StartFanout("get_any_profiles", [NoArg EXCEPT !.userids = userids],
                        {"user.get_any_profiles"})
         /\ UNCHANGED refs

\* get_all_profiles, lines 245-258
GetAllProfiles ==
    /\ StartFanout("get_all_profiles", NoArg,
                   {"user.get_all_cards", "user.get_all_profiles"})
    /\ UNCHANGED refs

\* one client.get_profiles call returns
PeerReturns(p) ==
    /\ pc = "fanout"
    /\ p \in pendingPeers
    /\ \E r \in Responses(p, MaxRecords - SumLen(resp, 1)) :
         resp' = [resp EXCEPT ![p] = r]
    /\ pendingPeers' = pendingPeers \ {p}
    /\ UNCHANGED <<store, refs, pc, op, arg, pendingLocal, raised, remote, result,
                   calls, first, held, failing>>

PeerReply(p) == PeerReturns(p) /\ UNCHANGED order

\* the same, the completion written down in the history
PeerReplyObserved(p) == PeerReturns(p) /\ order' = Append(order, p)

\* one client.get_profiles call raises and the default policy applies: the
\* sibling calls go on; the peer counts as having returned nothing, unless
\* its call is the only one outstanding, whose failure is passed to the
\* caller
PeerRaise(p) ==
    /\ pc = "fanout"
    /\ p \in pendingPeers
    /\ ~failing
    /\ raised' = raised \cup {p}
    /\ pendingPeers' = pendingPeers \ {p}
    /\ failing' = (pendingPeers = {p})
    /\ UNCHANGED <<store, refs, pc, op, arg, pendingLocal, resp, remote, result,
                   calls, order, first, held>>

\* one client.get_profiles call raises where the deployment is configured to
\* make any peer failure fatal to the whole operation: the sibling calls go
\* on and the failure is passed to the caller (the flag is read where a call
\* fails: an earlier failure of the same fan-out was fatal too)
PeerRaiseFatal(p) ==
    /\ pc = "fanout"
    /\ p \in pendingPeers
    /\ raised = {} \/ failing
    /\ raised' = raised \cup {p}
    /\ pendingPeers' = pendingPeers \ {p}
    /\ failing' = TRUE
    /\ UNCHANGED <<store, refs, pc, op, arg, pendingLocal, resp, remote, result,
                   calls, order, first, held>>

\* one of the local store's tasks of Parallel.execute returns
LocalDone(t) ==
    /\ pc = "fanout"
    /\ t \in pendingLocal
    /\ pendingLocal' = pendingLocal \ {t}
    /\ UNCHANGED <<store, refs, pc, op, arg, pendingPeers, resp, raised, remote, result,
                   calls, order, first, held, failing>>

\* the peers' calls have returned, the local store's tasks may be running
Joined_peersOnly == pc = "fanout" /\ pendingPeers = {}

\* every task has returned
Joined == pc = "fanout" /\ pendingPeers = {} /\ pendingLocal = {}

\* __profile_request, lines 122-145
MergeOne ==
    /\ Joined
    /\ ~failing
    /\ op \in {"get_profile", "get_any_profile"}
    /\ pc' = "done"
    /\ remote' = Flatten(resp)
    /\ result' = Ok(profile_request(game, version, arg.userid, op = "get_profile", Flatten(resp)))
    /\ UNCHANGED <<store, refs, op, arg, pendingPeers, pendingLocal, resp, raised,
                   calls, order, first, held, failing>>

\* get_any_profiles, lines 206-243
MergeMany ==
    /\ Joined
    /\ ~failing
    /\ op = "get_any_profiles"
    /\ LET m == get_any_profiles_merge(game, version, refs,
                    user_get_any_profiles(profileTable, local_ids_of(arg.userids)),
                    remote_ids_of(arg.userids), Flatten(resp))
       IN  /\ result' = [status |-> m.status, value |-> m.value]
           /\ refs' = m.refs
    /\ pc' = "done"
    /\ remote' = Flatten(resp)
    /\ UNCHANGED <<store, op, arg, pendingPeers, pendingLocal, resp, raised,
                   calls, order, first, held, failing>>

\* get_all_profiles, lines 260-293
MergeAll ==
    /\ Joined
    /\ ~failing
    /\ op = "get_all_profiles"
    /\ LET m == get_all_profiles_merge(game, version, refs, cardTable, profileTable,
                                       Flatten(resp))
       IN  /\ result' = [status |-> m.status, value |-> m.value]
           /\ refs' = m.refs
           /\ remote' = m.recs
    /\ pc' = "done"
    /\ UNCHANGED <<store, op, arg, pendingPeers, pendingLocal, resp, raised,
                   calls, order, first, held, failing>>

\* Parallel.call lets the failure out once every task has returned; no
\* statement of the method catches it (lines 115-121, 195-204, 248-258)
ReportFailure ==
    /\ Joined
    /\ failing
    /\ pc' = "done"
    /\ result' = [status |-> "PeerError", value |-> <<>>]
    /\ UNCHANGED <<store, refs, op, arg, pendingPeers, pendingLocal, resp, raised, remote,
                   calls, order, first, held, failing>>

Next ==
    \/ \E c \in {Card_A1, Card_B1} : FromCardid(c)
    \/ \E u \in {L1, V_A1, V_B1} : FromRefid(u)
    \/ \E u \in {L1, V_A1, V_B1} : FromExtid(u)
    \/ \E u \in OneIds : GetProfile(u)
    \/ \E u \in OneIds : GetAnyProfile(u)
    \/ \E ids \in IdLists : GetAnyProfiles(ids)
    \/ GetAllProfiles
    \/ \E p \in Peers : PeerReply(p)
    \/ \E t \in {"user.get_any_profiles", "user.get_all_cards",
                 "user.get_all_profiles"} : LocalDone(t)
    \/ MergeOne
    \/ MergeMany
    \/ MergeAll

Spec == Init /\ [][Next]_vars

\* the lookups with peers whose calls may raise
NextFail ==
    \/ \E u \in OneIds : GetProfile(u)
    \/ \E u \in OneIds : GetAnyProfile(u)
    \/ \E ids \in IdLists : GetAnyProfiles(ids)
    \/ GetAllProfiles
    \/ \E p \in Peers : PeerReply(p)
    \/ \E p \in Peers : PeerRaise(p)
    \/ \E p \in Peers : PeerRaiseFatal(p)
    \/ \E t \in {"user.get_any_profiles", "user.get_all_cards",
                 "user.get_all_profiles"} : LocalDone(t)
    \/ MergeOne
    \/ MergeMany
    \/ MergeAll
    \/ ReportFailure

SpecFail == Init /\ [][NextFail]_vars

\* the lookups with the order of completion of the peers' calls recorded
NextOrder ==
    \/ \E u \in OneIds : GetProfile(u)
    \/ \E u \in OneIds : GetAnyProfile(u)
    \/ \E ids \in IdLists : GetAnyProfiles(ids)
    \/ GetAllProfiles
    \/ \E p \in Peers : PeerReplyObserved(p)
    \/ \E t \in {"user.get_any_profiles", "user.get_all_cards",
                 "user.get_all_profiles"} : LocalDone(t)
    \/ MergeOne
    \/ MergeMany
    \/ MergeAll

SpecOrder == Init /\ [][NextOrder]_vars

TypeOK == pc \in {"idle", "fanout", "done"}

---------------------------------------------------------------------------
(* The same call made twice *)

\* what the peers answer when asked the same again: records equal to those
\* they sent (each call is a query of its own, nothing is shared between
\* requests)
AnswersAgain == resp

\* the second call returns without a fan-out, after the store lookups made
ReturnAgain(made, value) ==
    /\ pc' = "done"
    /\ first' = result
    /\ result' = Ok(value)
    /\ calls' = made
    /\ resp' = [p \in Peers |-> <<>>]
    /\ remote' = <<>>
    /\ held' = AnswersAgain
    /\ UNCHANGED <<store, refs, op, arg, pendingPeers, pendingLocal, raised, order, failing>>

\* Parallel.execute / Parallel.call of the second call: the tasks are started
StartFanoutAgain(localTasks) ==
    /\ pc' = "fanout"
    /\ first' = result
    /\ result' = NoResult
    /\ pendingPeers' = Peers
    /\ pendingLocal' = localTasks
    /\ calls' = {PeerCall(p) : p \in Peers} \cup localTasks
    /\ resp' = [p \in Peers |-> <<>>]
    /\ remote' = <<>>
    /\ held' = AnswersAgain
    /\ UNCHANGED <<store, op, arg, raised, order, failing>>

\* the method has returned once and is called again with the same arguments
Returned(names) == pc = "done" /\ first = NoResult /\ op \in names

\* get_profile / get_any_profile again, lines 159-169 and 111-121
GetOneAgain ==
    /\ Returned({"get_profile", "get_any_profile"})
    /\ IF is_remote(arg.userid)
       THEN /\ StartFanoutAgain({})
            /\ refs' = user_mint(refs, game, version, arg.userid)
       ELSE /\ ReturnAgain({"user." \o op}, user_get_profile(profileTable, arg.userid))

\* get_any_profiles again, lines 171-204
GetAnyProfilesAgain ==
    /\ Returned({"get_any_profiles"})
    /\ IF Len(arg.userids) = 0
       THEN ReturnAgain({}, <<>>)
       ELSE IF Len(remote_ids_of(arg.userids)) = 0
       THEN ReturnAgain({"user.get_any_profiles"},
                        user_get_any_profiles(profileTable, local_ids_of(arg.userids)))
       ELSE /\ StartFanoutAgain({"user.get_any_profiles"})
            /\ UNCHANGED refs

\* get_all_profiles again, lines 245-258
GetAllProfilesAgain ==
    /\ Returned({"get_all_profiles"})
    /\ StartFanoutAgain({"user.get_all_cards", "user.get_all_profiles"})
    /\ UNCHANGED refs

\* one client.get_profiles call of the first call returns
PeerReplyFirst(p) == first = NoResult /\ PeerReply(p)

\* one client.get_profiles call of the second call returns what the peer holds
PeerReplyAgain(p) ==
    /\ pc = "fanout"
    /\ first # NoResult
    /\ p \in pendingPeers
    /\ resp' = [resp EXCEPT ![p] = held[p]]
    /\ pendingPeers' = pendingPeers \ {p}
    /\ UNCHANGED <<store, refs, pc, op, arg, pendingLocal, raised, remote, result,
                   calls, order, first, held, failing>>

\* id lists asked twice
TwiceIdLists == { <<>>, <<L2, L1>>, <<V_A1, V_B1>>, <<L1, V_A1, V_B1>> }

NextTwice ==
    \/ \E u \in OneIds : GetProfile(u)
    \/ \E u \in OneIds : GetAnyProfile(u)
    \/ \E ids \in TwiceIdLists : GetAnyProfiles(ids)
    \/ GetAllProfiles
    \/ GetOneAgain
    \/ GetAnyProfilesAgain
    \/ GetAllProfilesAgain
    \/ \E p \in Peers : PeerReplyFirst(p)
    \/ \E p \in Peers : PeerReplyAgain(p)
    \/ \E t \in {"user.get_any_profiles", "user.get_all_cards",
                 "user.get_all_profiles"} : LocalDone(t)
    \/ MergeOne
    \/ MergeMany
    \/ MergeAll

SpecTwice == Init /\ [][NextTwice]_vars

---------------------------------------------------------------------------
(* A record with per-game fields, returned for the card asked *)

QproFields == {"head", "hair", "face", "body", "hand"}
\* values of an integer field: the sentinel -1 and two others
FieldValues == {-1, 0, 3}

\* the qpro dicts a peer can send: any of the five sub-fields, any value
QproDicts == UNION {[S -> FieldValues] : S \in SUBSET QproFields}

\* the exact record of card a1, with or without area and qpro
WithArea(rec) == {rec} \cup {Put(rec, "area", a) : a \in FieldValues}
WithQpro(rec) == {rec} \cup {Put(rec, "qpro", q) : q \in QproDicts}
FieldRecords ==
    UNION {WithQpro(r) : r \in WithArea(RawRecord(<<Card_a1>>, "exact", NameOf(1, 1)))}

\* one client.get_profiles call returns: the first peer sends the record
\* with its per-game fields, the others nothing
PeerReplyFields(p) ==
    /\ pc = "fanout"
    /\ p \in pendingPeers
    /\ \E r \in (IF p = 1 THEN {<<raw>> : raw \in FieldRecords} ELSE {<<>>}) :
         resp' = [resp EXCEPT ![p] = r]
    /\ pendingPeers' = pendingPeers \ {p}
    /\ UNCHANGED <<store, refs, pc, op, arg, pendingLocal, raised, remote, result,
                   calls, order, first, held, failing>>

\* get_profile for the virtual user of card A1
NextFormat ==
    \/ GetProfile(V_A1)
    \/ \E p \in Peers : PeerReplyFields(p)
    \/ MergeOne

SpecFormat == Init /\ [][NextFormat]_vars

---------------------------------------------------------------------------
(* What the properties below speak about *)

\* the records the peers returned, in the order the method scans them
Recs == Flatten(resp)

\* the method has returned (or raised)
Done(o) == pc = "done" /\ op = o

\* the record lists the card, case ignored
ListsCard(rec, cardid) ==
    "cards" \in DOMAIN rec /\ \E j \in 1..Len(rec.cards) : Upper(rec.cards[j]) = cardid

\* the record's match marker is 'exact'
MarkedExact(rec) == "match" \in DOMAIN rec /\ rec.match = "exact"

\* the version a non-strict match gives
VersionOf(rec) == IF MarkedExact(rec) THEN version ELSE 0

\* the profile a caller gets for a record that carries a name only
Canonical(rec, userid, ver) ==
    IF game = "iidx"
    THEN [name |-> rec.name, game |-> game, version |-> ver,
          refid |-> RefId(game, version, userid), extid |-> ExtId(game, version, userid),
          qpro |-> EmptyDict]
    ELSE [name |-> rec.name, game |-> game, version |-> ver,
          refid |-> RefId(game, version, userid), extid |-> ExtId(game, version, userid)]

Min(S) == CHOOSE x \in S : \A y \in S : x <= y

\* the records that list the card
Hits(cardid) == {i \in 1..Len(Recs) : ListsCard(Recs[i], cardid)}

\* the virtual ids a get_any_profiles call asks for
AskedVirtual == {arg.userids[i] : i \in {j \in 1..Len(arg.userids) : is_remote(arg.userids[j])}}

\* the places of the result list that hold a tuple for the id
TuplesOf(userid) == {k \in 1..Len(result.value) : result.value[k][1] = userid}

---------------------------------------------------------------------------
(* get_any_profiles *)

\* the asked virtual ids that record i is the first to list
FirstListedBy(i) ==
    {u \in AskedVirtual : Hits(userid_to_card(u)) # {} /\ Min(Hits(userid_to_card(u))) = i}

\* C1: when one remote record lists the cards of several requested virtual
\* ids, get_any_profiles returns without error and the result has, for each
\* of those ids, a tuple normalized from that record, with the requested
\* version if the record is exact and version 0 otherwise.
C1_SharedRecordServesAll ==
    Done("get_any_profiles") =>
        \A i \in 1..Len(Recs) :
            Cardinality(FirstListedBy(i)) >= 2 =>
                /\ result.status = "ok"
                /\ \A u \in FirstListedBy(i) :
                     \E k \in TuplesOf(u) :
                         result.value[k][2] = Canonical(Recs[i], u, VersionOf(Recs[i]))

\* C4: get_any_profiles with a virtual id returns a list that holds exactly
\* one tuple for each distinct requested virtual id, and the tuple's profile
\* is None exactly when no remote record lists the id's card.
C4_EveryVirtualIdAnswered ==
    Done("get_any_profiles") /\ AskedVirtual # {} =>
        /\ result.status = "ok"
        /\ \A u \in AskedVirtual :
             /\ Cardinality(TuplesOf(u)) = 1
             /\ \A k \in TuplesOf(u) :
                  (result.value[k][2] = None) <=> (Hits(userid_to_card(u)) = {})

\* where the id's card stands in the card list of the first record listing it
CardPlace(u) ==
    LET rec == Recs[Min(Hits(userid_to_card(u)))]
    IN  Min({j \in 1..Len(rec.cards) : Upper(rec.cards[j]) = userid_to_card(u)})

\* u is matched earlier in the remote response than w
MatchedBefore(u, w) ==
    LET iu == Min(Hits(userid_to_card(u)))
        iw == Min(Hits(userid_to_card(w)))
    IN  iu < iw \/ (iu = iw /\ CardPlace(u) < CardPlace(w))

\* the local ids of the request, in request order
AskedLocal == local_ids_of(arg.userids)

\* the returned list is: the store's batch result, then the matched virtual
\* ids in remote-response order, then the unmatched virtual ids
ManyOrdered ==
    LET n == Len(AskedLocal)
        out == result.value
    IN  /\ Len(out) = n + Cardinality(AskedVirtual)
        /\ SubSeq(out, 1, n) = user_get_any_profiles(profileTable, AskedLocal)
        /\ \A k \in (n + 1)..Len(out) : is_remote(out[k][1])
        /\ \A k1 \in (n + 1)..Len(out) : \A k2 \in (n + 1)..Len(out) :
             k1 < k2 =>
                /\ (out[k1][2] = None => out[k2][2] = None)
                /\ (out[k1][2] # None /\ out[k2][2] # None
                      => MatchedBefore(out[k1][1], out[k2][1]))

\* C8: get_any_profiles returns the local store's batch result first, then
\* the matched virtual ids in the order of the flattened remote response,
\* then the unmatched ones; for 1 local and 2 virtual ids whose cards one
\* peer answers, that is 3 tuples.
C8_ManyOrdering ==
    Done("get_any_profiles") /\ AskedVirtual # {} =>
        result.status = "ok" /\ ManyOrdered

\* the same three statements for the calls that return
ManyHoldsWhenReturned ==
    Done("get_any_profiles") /\ AskedVirtual # {} /\ result.status = "ok" =>
        /\ ManyOrdered
        /\ \A u \in AskedVirtual :
             /\ Cardinality(TuplesOf(u)) = 1
             /\ \A k \in TuplesOf(u) :
                  IF Hits(userid_to_card(u)) = {}
                  THEN result.value[k][2] = None
                  ELSE LET rec == Recs[Min(Hits(userid_to_card(u)))]
                       IN  result.value[k][2] = Canonical(rec, u, VersionOf(rec))

\* get_any_profiles raises exactly when a record is the first to list the
\* cards of two requested ids
ManyRaisesOnSharedRecord ==
    Done("get_any_profiles") /\ AskedVirtual # {} =>
        (result.status = "KeyError"
            <=> \E i \in 1..Len(Recs) : Cardinality(FirstListedBy(i)) >= 2)

---------------------------------------------------------------------------
(* get_profile / get_any_profile on a virtual id *)

\* C2: get_profile on a virtual id returns the profile of the first record
\* that lists the id's card and is marked exact, with the requested version,
\* and None when there is no such record; a record that lists the card
\* without being exact is passed over and does not end the scan.
C2_StrictOnlyExact ==
    Done("get_profile") /\ is_remote(arg.userid) =>
        LET hits == {i \in Hits(userid_to_card(arg.userid)) : MarkedExact(Recs[i])}
        IN  result = Ok(IF hits = {} THEN None
                        ELSE Canonical(Recs[Min(hits)], arg.userid, version))

\* a partial record listing the card came first and the exact one after it was returned
C2_Witness ==
    /\ Done("get_profile") /\ is_remote(arg.userid)
    /\ Len(Recs) = 2
    /\ ListsCard(Recs[1], userid_to_card(arg.userid))
    /\ ~MarkedExact(Recs[1])
    /\ result.value # None
    /\ result.value.name = Recs[2].name

\* C3: get_any_profile on a virtual id returns the profile of the first
\* record, in flattened peer order, that lists the id's card, with the
\* requested version when that record is exact and version 0 when not, and
\* None (no error) when no record lists the card.
C3_FirstMatchWins ==
    Done("get_any_profile") /\ is_remote(arg.userid) =>
        LET hits == Hits(userid_to_card(arg.userid))
        IN  result = Ok(IF hits = {} THEN None
                        ELSE Canonical(Recs[Min(hits)], arg.userid, VersionOf(Recs[Min(hits)])))

\* two records of two peers list the card, the first partial, the second
\* exact, and the first was returned with version 0
C3_Witness ==
    /\ Done("get_any_profile") /\ is_remote(arg.userid)
    /\ Len(resp[1]) = 1 /\ Len(resp[2]) = 1
    /\ Hits(userid_to_card(arg.userid)) = {1, 2}
    /\ ~MarkedExact(Recs[1]) /\ MarkedExact(Recs[2])
    /\ result.value # None
    /\ result.value.name = Recs[1].name
    /\ result.value.version = 0

---------------------------------------------------------------------------
(* get_all_profiles *)

\* the places of the result list keyed by a virtual id / by a local id
VirtualEntries == {k \in 1..Len(result.value) : is_remote(result.value[k][1])}
LocalEntries == {k \in 1..Len(result.value) : ~is_remote(result.value[k][1])}

\* the record whose name the entry's profile carries (names are not shared)
HasSource(k) == \E i \in 1..Len(Recs) : Recs[i].name = result.value[k][2].name
SourceOf(k) == CHOOSE i \in 1..Len(Recs) : Recs[i].name = result.value[k][2].name

\* no entry of the result carries the record's name
Unused(rec) == \A k \in 1..Len(result.value) : result.value[k][2].name # rec.name

\* the record lists a card of the local card table
Overlaps(rec) ==
    \E j \in 1..Len(rec.cards) : \E c \in 1..Len(cardTable) :
        Upper(rec.cards[j]) = cardTable[c][1]

\* the smallest of the record's upper-cased cards
MinCard(rec) ==
    LET cs == {Upper(rec.cards[j]) : j \in 1..Len(rec.cards)}
    IN  CHOOSE c \in cs : \A d \in cs : c = d \/ StrLess(c, d)

\* exact, with cards, none of them local
Accepted(rec) == Len(rec.cards) > 0 /\ ~Overlaps(rec) /\ MarkedExact(rec)

\* C5: get_all_profiles uses no remote record that lists a card of the local
\* card table, whatever its marker: no entry of the result is made from such
\* a record, and every entry keyed by a local id is the local store's own.
C5_LocalCardDiscardsRecord ==
    Done("get_all_profiles") =>
        /\ \A k \in VirtualEntries : HasSource(k) /\ ~Overlaps(Recs[SourceOf(k)])
        /\ \A i \in 1..Len(Recs) : Overlaps(Recs[i]) => Unused(Recs[i])
        /\ \A k \in LocalEntries :
             \E j \in 1..Len(profileTable) : profileTable[j] = result.value[k]

\* an exact record listing a local card and, before it in sorted order, a
\* card unknown locally, was left out
C5_Witness ==
    /\ Done("get_all_profiles")
    /\ \E i \in 1..Len(Recs) :
         /\ MarkedExact(Recs[i])
         /\ Len(Recs[i].cards) = 2
         /\ Overlaps(Recs[i])
         /\ \A c \in 1..Len(cardTable) : MinCard(Recs[i]) # cardTable[c][1]
         /\ Unused(Recs[i])

\* C6: get_all_profiles makes no entry from a remote record that is partial
\* or unmarked: every entry keyed by a virtual id comes from a record marked
\* exact and has the requested version, never 0.
C6_OnlyExactMaterialized ==
    Done("get_all_profiles") =>
        /\ \A k \in VirtualEntries :
             /\ HasSource(k)
             /\ MarkedExact(Recs[SourceOf(k)])
             /\ result.value[k][2].version = version
             /\ result.value[k][2].version # 0
        /\ \A i \in 1..Len(Recs) : ~MarkedExact(Recs[i]) => Unused(Recs[i])

\* a partial record with a card unknown locally was left out while an exact
\* one was taken
C6_Witness ==
    /\ Done("get_all_profiles")
    /\ \E i \in 1..Len(Recs) :
         /\ "match" \in DOMAIN Recs[i] /\ Recs[i].match = "partial"
         /\ Len(Recs[i].cards) > 0 /\ ~Overlaps(Recs[i])
         /\ Unused(Recs[i])
    /\ VirtualEntries # {}

\* C7: get_all_profiles keys the entry made from an accepted record (exact,
\* with cards, none of them local) by the virtual id of the smallest
\* upper-cased card of the record, in whatever order the peer listed the
\* cards; a record without cards makes no entry.
C7_SmallestCardKeys ==
    Done("get_all_profiles") =>
        /\ \A k \in VirtualEntries :
             /\ HasSource(k)
             /\ Len(Recs[SourceOf(k)].cards) > 0
             /\ result.value[k][1] = card_to_userid(MinCard(Recs[SourceOf(k)]))
        /\ \A i \in 1..Len(Recs) :
             /\ Accepted(Recs[i]) =>
                  \E k \in VirtualEntries :
                      result.value[k][1] = card_to_userid(MinCard(Recs[i]))
             /\ Len(Recs[i].cards) = 0 => Unused(Recs[i])

\* a record listing "B1" before "a1" was keyed by the virtual id of "A1",
\* and an exact record without cards was left out
C7_Witness ==
    /\ Done("get_all_profiles")
    /\ Len(Recs) = 2
    /\ \E i \in 1..2 : \E k \in VirtualEntries :
         /\ Recs[i].cards = <<Card_B1, Card_a1>>
         /\ result.value[k][2].name = Recs[i].name
         /\ result.value[k][1] = V_A1
    /\ \E i \in 1..2 : Len(Recs[i].cards) = 0 /\ MarkedExact(Recs[i])
    /\ Len(result.value) = 1

---------------------------------------------------------------------------
(* A peer that raises *)

\* the ids of the result list whose profile is not None
Answered == {result.value[k][1] : k \in {j \in 1..Len(result.value) : result.value[j][2] # None}}

\* the result uses what the peers that did not raise returned
SiblingsServed ==
    /\ op \in {"get_profile", "get_any_profile"} =>
         /\ result.status = "ok"
         /\ (\E i \in Hits(userid_to_card(arg.userid)) : MarkedExact(Recs[i]))
               => result.value # None
         /\ op = "get_any_profile" /\ Hits(userid_to_card(arg.userid)) # {}
               => result.value # None
    /\ op = "get_all_profiles" =>
         /\ result.status = "ok"
         /\ \A i \in 1..Len(Recs) : Accepted(Recs[i]) =>
              card_to_userid(MinCard(Recs[i])) \in {result.value[k][1] : k \in VirtualEntries}
         /\ \A j \in 1..Len(profileTable) :
              \E k \in LocalEntries : result.value[k] = profileTable[j]
    /\ op = "get_any_profiles" /\ result.status = "ok" =>
         /\ \A u \in AskedVirtual : Hits(userid_to_card(u)) # {} => u \in Answered
         /\ SubSeq(result.value, 1, Len(AskedLocal))
              = user_get_any_profiles(profileTable, AskedLocal)

\* C9: a peer whose get_profiles call raises contributes an empty response
\* and does not end the fan-out: the other peers' calls complete, and the
\* method returns a result made from the local store and their records.
C9_RaisingPeerIsEmpty ==
    /\ \A p \in raised : resp[p] = <<>>
    /\ pc = "done" /\ raised # {} =>
         /\ pendingPeers = {}
         /\ result.status # "PeerError"
         /\ SiblingsServed

\* a raising peer never ends the fan-out: its siblings' calls complete, and
\* a failure reaches the caller only after every task has returned
SiblingsNotAborted ==
    /\ pendingPeers # {} \/ pendingLocal # {} => result.status # "PeerError"
    /\ result.status = "PeerError" <=> pc = "done" /\ failing

\* where no failure is passed on, the raising peer counts as having returned
\* nothing and the result is made from the local store and the other peers
DegradedPeerIsEmpty ==
    /\ \A p \in raised : resp[p] = <<>>
    /\ pc = "done" /\ raised # {} /\ ~failing => SiblingsServed

\* peer 1 raised and the profile returned comes from peer 2's record
DegradedReached ==
    /\ Done("get_any_profile")
    /\ raised = {1}
    /\ result.status = "ok"
    /\ Len(resp[2]) > 0
    /\ result.value # None
    /\ result.value.name = NameOf(2, 1)

\* peer 1 returned a record for the card, peer 2 raised as the only
\* outstanding call, and the method raised
PassedThroughReached ==
    /\ Done("get_any_profile")
    /\ raised = {2}
    /\ Hits(userid_to_card(arg.userid)) # {}
    /\ result.status = "PeerError"

---------------------------------------------------------------------------
(* from_cardid / from_refid / from_extid *)

\* C10 as stated: none of from_cardid, from_refid and from_extid returns an
\* absent identity; each falls back to a virtual id when the store has no
\* mapping.
C10_AllFallBack ==
    pc = "done" /\ op \in {"from_cardid", "from_refid", "from_extid"} =>
        result.value # NoUser

\* C10, amended: from_cardid returns the store's identity for the card when
\* the store maps it and the virtual id derived from the card when not, so
\* it never returns an absent identity; from_refid and from_extid return
\* the store's answer as it is, which is absent when the store has no
\* mapping for the id.
C10_OnlyCardFallsBack ==
    /\ Done("from_cardid") =>
         /\ result.value # NoUser
         /\ IF \E c \in 1..Len(cardTable) : cardTable[c][1] = arg.cardid
            THEN \E c \in 1..Len(cardTable) : cardTable[c] = <<arg.cardid, result.value>>
            ELSE is_remote(result.value) /\ userid_to_card(result.value) = arg.cardid
    /\ Done("from_refid") \/ Done("from_extid") =>
         result.value = (IF <<game, version, arg.id.userid>> \in refs
                         THEN arg.id.userid ELSE NoUser)

\* the store has no mapping for the card and the derived virtual id came back
C10_Witness ==
    /\ Done("from_cardid")
    /\ \A c \in 1..Len(cardTable) : cardTable[c][1] # arg.cardid
    /\ result.value = card_to_userid(arg.cardid)

---------------------------------------------------------------------------
(* Calls made on the way *)

\* no peer was queried: no call started, none completed, none raised
NoPeerCall ==
    /\ \A p \in Peers : PeerCall(p) \notin calls /\ resp[p] = <<>>
    /\ pendingPeers = {}
    /\ raised = {}

\* the ids the store held before the call
RefsAtStart == (CHOOSE w \in Worlds : w.game = game).refs

\* what the local store holds for the id: its profile, or None
StoreAnswer(userid) ==
    IF \E j \in 1..Len(profileTable) : profileTable[j][1] = userid
    THEN profileTable[CHOOSE j \in 1..Len(profileTable) : profileTable[j][1] = userid][2]
    ELSE None

\* C11: get_any_profiles with an empty id list returns the empty list and
\* makes no peer query and no call of the local store.
C11_EmptyListNoCalls ==
    op = "get_any_profiles" /\ arg.userids = <<>> =>
        /\ pc = "done"
        /\ result = Ok(<<>>)
        /\ calls = {}
        /\ pendingLocal = {}
        /\ NoPeerCall
        /\ refs = RefsAtStart

\* the empty list was asked and the empty list came back
C11_Witness ==
    /\ Done("get_any_profiles")
    /\ arg.userids = <<>>
    /\ result = Ok(<<>>)
    /\ calls = {}

\* C12: no peer is queried when no requested id is virtual: get_profile and
\* get_any_profile on a local id return the local store's answer, None
\* included, and get_any_profiles over local ids only returns the local
\* store's batch result; no peer call is made in either case.
C12_LocalOnlyNoPeerCall ==
    /\ op \in {"get_profile", "get_any_profile"} /\ ~is_remote(arg.userid) =>
         /\ pc = "done"
         /\ result = Ok(StoreAnswer(arg.userid))
         /\ NoPeerCall
    /\ op = "get_any_profiles" /\ AskedVirtual = {} =>
         /\ pc = "done"
         /\ result = Ok([i \in 1..Len(arg.userids) |->
                            <<arg.userids[i], StoreAnswer(arg.userids[i])>>])
         /\ NoPeerCall

\* a local id without a profile got None, from the store alone
C12_Witness ==
    /\ Done("get_profile")
    /\ arg.userid = L2
    /\ result = Ok(None)
    /\ calls = {"user.get_profile"}
    /\ NoPeerCall

---------------------------------------------------------------------------
(* The fan-out: joining and ordering *)

\* the method queried the peers
FannedOut == \E p \in Peers : PeerCall(p) \in calls

\* C13: in get_any_profiles and get_all_profiles the merge starts only after
\* every task of the operation (the local store's lookups and every peer's
\* query) has completed: while a task is outstanding no remote record is
\* folded into a result, no id is minted and nothing is returned.
C13_JoinBeforeMerge ==
    op \in {"get_any_profiles", "get_all_profiles"} =>
        /\ pendingPeers # {} \/ pendingLocal # {} =>
             /\ pc = "fanout"
             /\ result = NoResult
             /\ remote = <<>>
             /\ refs = RefsAtStart
        /\ pc = "done" /\ FannedOut =>
             /\ pendingPeers = {} /\ pendingLocal = {}
             /\ \A p \in raised : resp[p] = <<>>

\* get_all_profiles folded a peer's record in after both peers and both
\* lookups of the local store had completed
C13_Witness ==
    /\ Done("get_all_profiles")
    /\ pendingPeers = {} /\ pendingLocal = {}
    /\ \A p \in Peers : Len(resp[p]) > 0
    /\ \E k \in 1..Len(result.value) : is_remote(result.value[k][1])

\* the peers' responses one after the other in the order of self.clients
RECURSIVE ConfigOrder(_)
ConfigOrder(p) == IF p = 0 THEN <<>> ELSE ConfigOrder(p - 1) \o resp[p]

\* C14: whatever the order in which the peers' calls complete, the records
\* scanned are the peers' responses concatenated in the order the peers are
\* configured, each response in its own order, and the result is the one
\* that sequence gives.
C14_ConfigOrderWhateverCompletion ==
    pc = "done" /\ FannedOut =>
        LET scanned == ConfigOrder(NumPeers)
        IN  /\ op \in {"get_profile", "get_any_profile"} =>
                 /\ remote = scanned
                 /\ result = Ok(profile_request(game, version, arg.userid,
                                                op = "get_profile", scanned))
            /\ op = "get_any_profiles" =>
                 /\ remote = scanned
                 /\ LET m == get_any_profiles_merge(game, version, refs,
                                 user_get_any_profiles(profileTable, local_ids_of(arg.userids)),
                                 remote_ids_of(arg.userids), scanned)
                    IN  result = [status |-> m.status, value |-> m.value]
            /\ op = "get_all_profiles" =>
                 LET m == get_all_profiles_merge(game, version, refs, cardTable,
                                                 profileTable, scanned)
                 IN  result = [status |-> m.status, value |-> m.value]

\* the last configured peer answered first, both peers' records list the
\* card, and the first configured peer's record was returned
C14_Witness ==
    /\ Done("get_any_profile")
    /\ order = <<2, 1>>
    /\ Len(resp[1]) = 1 /\ Len(resp[2]) = 1
    /\ ListsCard(resp[1][1], userid_to_card(arg.userid))
    /\ ListsCard(resp[2][1], userid_to_card(arg.userid))
    /\ result.value # None
    /\ result.value.name = NameOf(1, 1)

---------------------------------------------------------------------------
(* The same call made twice *)

\* the method was called twice and has returned twice
ReturnedTwice == pc = "done" /\ first # NoResult

---------------------------------------------------------------------------
(* get_any_profiles: a card listed by several records *)

\* the asked virtual ids whose card more than one record lists
AskedDuplicated == {u \in AskedVirtual : Cardinality(Hits(userid_to_card(u))) >= 2}

\* the id has one tuple, made from the first record that lists its card
FromFirstOfDuplicates(u) ==
    /\ Cardinality(TuplesOf(u)) = 1
    /\ \A k \in TuplesOf(u) :
         LET rec == Recs[Min(Hits(userid_to_card(u)))]
         IN  result.value[k][2] = Canonical(rec, u, VersionOf(rec))

\* C16: when the card of a requested virtual id is listed by more than one
\* record of the flattened remote response, get_any_profiles builds the
\* id's tuple from the first such record in peer order, also when that
\* record is partial and a later one exact, and ignores the later records.
C16_FirstDuplicateWins ==
    Done("get_any_profiles") =>
        \A u \in AskedDuplicated : result.status = "ok" /\ FromFirstOfDuplicates(u)

\* the same for the calls that return
FirstDuplicateWinsWhenReturned ==
    Done("get_any_profiles") /\ result.status = "ok" =>
        \A u \in AskedDuplicated : FromFirstOfDuplicates(u)

\* a call with such an id raises only where a record is the first to list
\* the cards of two requested ids
DuplicateFailsOnSharedRecordOnly ==
    Done("get_any_profiles") /\ AskedDuplicated # {} /\ result.status # "ok" =>
        /\ result.status = "KeyError"
        /\ \E i \in 1..Len(Recs) : Cardinality(FirstListedBy(i)) >= 2

\* a partial record of peer 1 and an exact one of peer 2 list the card, and
\* the tuple carries the first one's name and version 0
FirstDuplicateWinsReached ==
    /\ Done("get_any_profiles") /\ result.status = "ok"
    /\ arg.userids = <<V_A1>>
    /\ Len(resp[1]) = 1 /\ Len(resp[2]) = 1
    /\ Hits(Card_A1) = {1, 2}
    /\ ~MarkedExact(Recs[1]) /\ MarkedExact(Recs[2])
    /\ result.value = <<<<V_A1, Canonical(Recs[1], V_A1, 0)>>>>

---------------------------------------------------------------------------
(* get_all_profiles: the shape of the result *)

Max(S) == CHOOSE x \in S : \A y \in S : x >= y

\* the accepted records that derive the virtual id
DerivedFrom(userid) ==
    {i \in 1..Len(Recs) : Accepted(Recs[i]) /\ card_to_userid(MinCard(Recs[i])) = userid}

\* C17: in the result of get_all_profiles every id appears at most once; the
\* entries of the local profile table come first, each with its profile as
\* the store holds it; and when two accepted remote records derive the same
\* virtual id, the entry carries the profile of the later one in flattened
\* peer order.
C17_AllResultShape ==
    Done("get_all_profiles") =>
        LET out == result.value
        IN  /\ \A k1 \in 1..Len(out) : \A k2 \in 1..Len(out) :
                 out[k1][1] = out[k2][1] => k1 = k2
            /\ Len(out) >= Len(profileTable)
            /\ \A j \in 1..Len(profileTable) : out[j] = profileTable[j]
            /\ \A k \in (Len(profileTable) + 1)..Len(out) :
                 /\ is_remote(out[k][1])
                 /\ DerivedFrom(out[k][1]) # {}
                 /\ out[k][2] = Canonical(Recs[Max(DerivedFrom(out[k][1]))], out[k][1], version)

\* the store holds one profile, two accepted records of two peers derive
\* the same virtual id, and the result is the store's entry followed by one
\* entry made from the second record
C17_Witness ==
    /\ Done("get_all_profiles")
    /\ Len(profileTable) = 1
    /\ Len(resp[1]) = 1 /\ Len(resp[2]) = 1
    /\ Accepted(Recs[1]) /\ Accepted(Recs[2])
    /\ MinCard(Recs[1]) = MinCard(Recs[2])
    /\ Len(result.value) = 2
    /\ result.value[1] = profileTable[1]
    /\ result.value[2][2].name = Recs[2].name

---------------------------------------------------------------------------
(* The ids attached to a remote profile *)

\* the profile carries the ids the store holds for (game, version, userid)
\* and the requested game
Attached(userid, profile) ==
    /\ <<game, version, userid>> \in refs
    /\ profile.refid = RefId(game, version, userid)
    /\ profile.extid = ExtId(game, version, userid)
    /\ profile.game = game

\* C18: every profile other than None that get_profile, get_any_profile,
\* get_any_profiles or get_all_profiles returns for a virtual id carries the
\* refid and the extid the local store gives for (game, requested version,
\* that id), also when the match was partial and the profile's version is
\* 0, and its game is the requested game.
C18_StoreIdsAttached ==
    /\ pc = "done" /\ op \in {"get_profile", "get_any_profile"}
          /\ is_remote(arg.userid) /\ result.value # None
          => Attached(arg.userid, result.value)
    /\ pc = "done" /\ op \in {"get_any_profiles", "get_all_profiles"} =>
          \A k \in 1..Len(result.value) :
              is_remote(result.value[k][1]) /\ result.value[k][2] # None
                  => Attached(result.value[k][1], result.value[k][2])

\* a partial match came back with version 0 and the ids of the requested
\* version
C18_Witness ==
    /\ Done("get_any_profile")
    /\ is_remote(arg.userid)
    /\ result.value # None
    /\ result.value.version = 0
    /\ result.value.refid = RefId(game, version, arg.userid)
    /\ result.value.refid.version = version
    /\ version # 0

---------------------------------------------------------------------------
(* The peers' records after the call *)

\* C20: none of the lookups modifies the records the peers' clients
\* returned: after the call every record still has its card list and its
\* match marker and no game, version, refid or extid added, whether it was
\* accepted or not.
C20_PeerRecordsUntouched ==
    pc = "done" /\ FannedOut => remote = ConfigOrder(NumPeers)

\* get_profile, get_any_profile and get_any_profiles leave them as they were
OneAndManyLeaveRecordsUntouched ==
    pc = "done" /\ FannedOut /\ op # "get_all_profiles" => remote = ConfigOrder(NumPeers)

\* get_all_profiles leaves exactly the records without cards and those with
\* a local card as they were: the others have lost their card list, and the
\* accepted ones have got the four defaults
AllChangesRecordsInPlace ==
    Done("get_all_profiles") =>
        /\ Len(remote) = Len(Recs)
        /\ \A i \in 1..Len(Recs) :
             IF Len(Recs[i].cards) = 0 \/ Overlaps(Recs[i])
             THEN remote[i] = Recs[i]
             ELSE /\ "cards" \notin DOMAIN remote[i]
                  /\ ("game" \in DOMAIN remote[i]) <=> Accepted(Recs[i])

---------------------------------------------------------------------------
(* The per-game fields of IIDX *)

\* the record the peer returned
RawOf == resp[1][1]

\* the sub-fields the raw record carries with a value other than -1
RawQproSet ==
    IF "qpro" \in DOMAIN RawOf
    THEN {f \in QproFields : f \in DOMAIN RawOf.qpro /\ RawOf.qpro[f] # -1}
    ELSE {}

\* C19: the qpro map of an IIDX profile holds exactly those of head, hair,
\* face, body, hand that the raw record's qpro carries with a value other
\* than -1, each with its raw value; an absent sub-field and one of value
\* -1 are left out, never emitted as -1; area is copied to pid only when
\* present and not -1.
C19_IidxQproOnlyPresent ==
    Done("get_profile") /\ game = "iidx" =>
        LET out == result.value
        IN  /\ out # None
            /\ "qpro" \in DOMAIN out
            /\ DOMAIN out.qpro = RawQproSet
            /\ \A f \in DOMAIN out.qpro : out.qpro[f] = RawOf.qpro[f] /\ out.qpro[f] # -1
            /\ ("pid" \in DOMAIN out) <=> ("area" \in DOMAIN RawOf /\ RawOf.area # -1)
            /\ "pid" \in DOMAIN out => out.pid = RawOf.area

\* qpro.head = -1 and qpro.hair = 3 gave qpro = {hair: 3}, and area = -1
\* gave no pid
C19_Witness ==
    /\ Done("get_profile") /\ game = "iidx"
    /\ "qpro" \in DOMAIN RawOf /\ "area" \in DOMAIN RawOf
    /\ RawOf.area = -1
    /\ RawOf.qpro = [head |-> -1, hair |-> 3]
    /\ result.value # None
    /\ result.value.qpro = [hair |-> 3]
    /\ "pid" \notin DOMAIN result.value

====
